---- MODULE Spec2Model ----
(***************************************************************************)
(* The authoritative simulation core of the arena shooter: the GameState   *)
(* class of src/server/GameState.ts and the socket / timer / HTTP handlers *)
(* of src/server/index.ts that drive it.                                   *)
(*                                                                         *)
(* Units.  Time is in milliseconds, as Date.now() gives it.  Positions and *)
(* velocities are the code's numbers.  deltaTime is (now - lastTick)/1000  *)
(* seconds; the model keeps the millisecond difference dtMs and computes   *)
(* every product  v * deltaTime  as  (v * dtMs) \div 1000.  The inputs the *)
(* model draws (INPUTS, DIRECTIONS, TickSteps) make every such product,    *)
(* every projectile speed and every normalisation an exact integer, so the *)
(* integer arithmetic below is the code's floating point arithmetic.  The  *)
(* square root of a pickup distance is rounded down: it is only compared   *)
(* with the integer pickup radius, which the rounding does not change.     *)
(***************************************************************************)
EXTENDS Integers, Sequences, FiniteSets, TLC

VARIABLES
    players,              \* GameState.players: id -> PlayerState
    order,                \* insertion order of the players Map (its iteration order)
    projectiles,          \* GameState.projectiles
    powerUps,             \* GameState.powerUps (isActive, respawnTime; position and type are fixed)
    gameMode,             \* GameState.gameMode
    teamScores,           \* GameState.teamScores
    projectileIdCounter,  \* GameState.projectileIdCounter
    now,                  \* Date.now(); lastTick of the game loop equals it between handlers
    hits,                 \* the hits the last handler returned (update's HitResult[])
    kills,                \* the kills the last handler returned (update's KillResult[])
    powerUpsCollected,    \* the pickups the last handler returned
    hitLog,               \* history: one record per hit of the last tick, with the values around it
    outcome,              \* what the last handler did with its request: "done", "ignored"
                          \* (it named no player of the store and returned), "dead" (it
                          \* named a dead player and returned), "rejected" (HTTP 400)
    bots,                 \* GameState.bots: the BotState of every bot, by id
    isPracticeMode,       \* GameState.isPracticeMode
    botsArePassive,       \* GameState.botsArePassive
    botIdCounter,         \* GameState.botIdCounter
    snapshot              \* a serialize() result in the hands of its receiver: what it held
                          \* when it was made (taken), what it holds now (seen), and which
                          \* of its objects the store still uses (live)

vars == <<players, order, projectiles, powerUps, gameMode, teamScores,
          projectileIdCounter, now, hits, kills, powerUpsCollected, hitLog, outcome,
          bots, isPracticeMode, botsArePassive, botIdCounter, snapshot>>

----------------------------------------------------------------------------
(* Bounds of the model *)

\* Spec: the clock stops after this many seconds
MaxSeconds == 1

\* Spec: at most this many projectiles are ever created
MaxShots == 3

\* SpecFlight: the clock stops after this many seconds
FlightSeconds == 2

\* SpecFlight: at most this many projectiles are ever created
FlightShots == 2

\* SpecDuel: the game loop runs for DuelSeconds seconds, DuelShots projectiles are fired
DuelSeconds == 1

DuelShots == 4

\* SpecStray: the clock stops after StraySeconds seconds, StrayShots projectiles are fired
StraySeconds == 1

\* SpecSnapshot: the clock stops after SnapshotSeconds seconds, SnapshotShots projectiles
\* are fired
SnapshotSeconds == 1

SnapshotShots == 1

\* SpecPractice: the clock stops after PracticeSeconds seconds, the player fires while
\* fewer than PracticeShots projectiles have been fired
PracticeSeconds == 6

PracticeShots == 3

\* SpecDrill: the clock stops after DrillSeconds seconds, the player fires while fewer
\* than DrillShots projectiles have been fired
DrillSeconds == 10

DrillShots == 6

\* SpecGhost: the clock stops after GhostSeconds seconds, GhostShots projectiles are
\* fired or asked for, a player turns GhostTurns times
GhostSeconds == 1

GhostShots == 4

GhostTurns == 1

\* SpecExpiry: the clock stops after ExpirySeconds seconds, ExpiryShots projectiles are
\* fired
ExpirySeconds == 7

ExpiryShots == 2

\* SpecPhases: the clock stops after PhaseSeconds seconds, PhaseShots projectiles are
\* fired by the gunner
PhaseSeconds == 2

PhaseShots == 3

\* SpecPointBlank: the clock stops after PointSeconds seconds, PointShots projectiles
\* are fired by the gunner and the bots
PointSeconds == 2

PointShots == 3

\* SpecEnrol: the clock stops after EnrolSeconds seconds
EnrolSeconds == 2

\* SpecCareer: the clock stops after CareerSeconds seconds, CareerShots projectiles are
\* fired
CareerSeconds == 1

CareerShots == 3

\* SpecCycle: the clock stops after CycleSeconds seconds
CycleSeconds == 45

StrayShots == 2

----------------------------------------------------------------------------
(* Constants of the program *)

WORLD_SIZE == 2000
PLAYER_SPEED == 50
PLAYER_BOOST_MULTIPLIER == 2
PLAYER_MAX_HEALTH == 100
PLAYER_MAX_SHIELD == 50
LASER_SPEED == 200
LASER_DAMAGE == 15
MISSILE_SPEED == 80
MISSILE_DAMAGE == 40
PLASMA_SPEED == 120
PLASMA_DAMAGE == 25
POWERUP_RESPAWN_TIME == 30000
HitRadius == 80
PickupRadius == 15
ProjectileLifetime == 5000
KillScore == 100
HealthBoost == 50
ShieldBoost == 50

Vec(a, b, c) == [x |-> a, y |-> b, z |-> c]

Zero3 == Vec(0, 0, 0)

SPAWN_POSITIONS ==
    << Vec(0, 0, 0), Vec(100, 20, 100), Vec(-100, -20, 100),
       Vec(100, 10, -100), Vec(-100, -10, -100), Vec(0, 40, 150),
       Vec(0, -40, -150), Vec(150, 0, 0), Vec(-150, 0, 0) >>

TEAM_SPAWNS ==
    [ red  |-> << Vec(-150, 0, 0), Vec(-120, 20, 50), Vec(-120, -20, -50) >>,
      blue |-> << Vec(150, 0, 0), Vec(120, 20, 50), Vec(120, -20, -50) >> ]

POWERUP_POSITIONS ==
    << Vec(0, 0, 0), Vec(80, 10, 80), Vec(-80, -10, 80),
       Vec(80, 0, -80), Vec(-80, 0, -80), Vec(0, 30, 0) >>

POWERUP_TYPES == << "health", "shield", "speed", "rapidfire", "damage" >>

\* types[i % types.length] for the power-up created i-th (1-based here)
PowerUpType(i) == POWERUP_TYPES[((i - 1) % Len(POWERUP_TYPES)) + 1]

----------------------------------------------------------------------------
(* The inputs the model draws *)

\* the team argument of a join (NoTeam: omitted) and the team of a player (NoTeam: null)
NoTeam == "none"

\* Socket ids.  The clients differ in the messages they send: s1 is a gunner (it joins,
\* shoots and leaves), s2 a pilot (it joins, flies, respawns and leaves), s3 a
\* bystander (it joins and leaves).
GUNNERS == {"s1"}

PILOTS == {"s2"}

BYSTANDERS == {"s3"}

\* the join messages of Spec: <<socket, team argument>>
JOINS == { <<"s1", NoTeam>>, <<"s1", "blue">>, <<"s2", NoTeam>> }

\* the values Math.floor(Math.random() * n) takes in the model
RANDOM_ROLLS == {0}

\* PlayerInput: the axes are in tenths (8 is 0.8).  The server does not check that an
\* axis is within [-1, 1]: FastInput is 12.0 on the strafe axis and -12.0 on the
\* forward axis
StopInput == [strafe |-> 0, vertical |-> 0, forward |-> 0, pitch |-> 0, yaw |-> 0,
              roll |-> 0, boost |-> FALSE]

ShieldInput == [strafe |-> 8, vertical |-> 0, forward |-> 7, pitch |-> 0, yaw |-> 0,
                roll |-> 0, boost |-> TRUE]

FastInput == [strafe |-> 120, vertical |-> 0, forward |-> -120, pitch |-> 0, yaw |-> 0,
              roll |-> 0, boost |-> TRUE]

\* an input that turns on the three axes and flies sideways
TurnInput == [strafe |-> 10, vertical |-> 0, forward |-> 0, pitch |-> 10, yaw |-> -10,
              roll |-> 5, boost |-> FALSE]

INPUTS == {StopInput, FastInput}

\* SpecExpiry: spawn rolls ((0,0,0) and (150,0,0)), and shots that fly or stand still
EXPIRY_ROLLS == {0, 7}

EXPIRY_TYPES == {"laser"}

EXPIRY_DIRECTIONS == { Vec(1, 0, 0), Zero3 }

\* SpecPhases: an input that flies into the bots' shooting range, and one that climbs
\* out of the line of fire
ApproachInput == [strafe |-> -10, vertical |-> 0, forward |-> 0, pitch |-> 0, yaw |-> 0,
                  roll |-> 0, boost |-> FALSE]

ClimbInput == [strafe |-> 0, vertical |-> 10, forward |-> 0, pitch |-> 0, yaw |-> 0,
               roll |-> 0, boost |-> TRUE]

PHASE_INPUTS == {ApproachInput, ClimbInput}

\* SpecPhases: the spawn rolls of the three bots: (0,0,0), (-150,0,0), (-150,0,0)
PHASE_BOT_ROLLS == { <<0, 8, 8>> }

\* SpecPointBlank: a practice join with bots that attack, and the gunner's spawn rolls:
\* (0,0,0), where the bots are, and (150,0,0)
POINT_DATA == { [team |-> NoTeam, mode |-> "practice", botBehavior |-> "aggressive"] }

POINT_ROLLS == {0, 7}

\* SpecEnrol: joins that ask for no mode, for practice with bots that attack, and for
\* practice with bots that stand still
ENROL_DATA ==
    { [team |-> NoTeam, mode |-> "", botBehavior |-> ""],
      [team |-> NoTeam, mode |-> "practice", botBehavior |-> "aggressive"],
      [team |-> NoTeam, mode |-> "practice", botBehavior |-> "passive"] }

\* SpecGhost: the inputs of a player that turns
GHOST_INPUTS == {StopInput, TurnInput}

FLIGHT_INPUTS == {StopInput, ShieldInput, FastInput}

PROJECTILE_TYPES == {"missile"}

\* ShootInput.direction
DIRECTIONS == { Vec(-1, 0, 0) }

FLIGHT_DIRECTIONS == { Vec(1, 0, 0) }

\* milliseconds between two runs of the game loop
TickSteps == {1000}

\* SpecCycle: the time between two ticks of a loaded server, in ms
CYCLE_STEPS == {10000, 15000}

\* SpecPractice: the data of a practice join, the player's spawn roll ((150,0,0)), the
\* bots' spawn rolls ((0,0,0)) and what Math.random() yields for a BotState
PRACTICE_DATA ==
    { [team |-> NoTeam, mode |-> "practice", botBehavior |-> behavior] :
          behavior \in {"aggressive", "passive"} }

PRACTICE_ROLLS == {7}

\* SpecDrill: a practice join with bots that stand still, and the time between two ticks
DRILL_DATA == { [team |-> NoTeam, mode |-> "practice", botBehavior |-> "passive"] }

DRILL_STEPS == {1000, 2000}

BOT_ROLLS == {0}

DICE == { [ respawn |-> 0, direction |-> Vec(1, 0, 0), delay |-> 0, facing |-> 0 ] }

\* the values of /api/mode/:mode
MODES == {"ffa", "team"}

MODE_REQUESTS == {"ffa", "team", "bogus"}

----------------------------------------------------------------------------
(* Arithmetic helpers *)

Max(a, b) == IF a >= b THEN a ELSE b

Min(a, b) == IF a <= b THEN a ELSE b

Abs(a) == IF a < 0 THEN -a ELSE a

\* Math.sqrt on the perfect squares the model's inputs produce (the floor otherwise),
\* by bisection: lo * lo <= n < hi * hi
RECURSIVE SqrtBetween(_, _, _)
SqrtBetween(n, lo, hi) ==
    IF hi - lo <= 1 THEN lo
    ELSE LET mid == (lo + hi) \div 2
         IN  IF mid * mid <= n THEN SqrtBetween(n, mid, hi) ELSE SqrtBetween(n, lo, mid)

Sqrt(n) == SqrtBetween(n, 0, Min(n + 1, 46340))

\* a vector whose three components are NaN
NaN3 == [nan |-> TRUE]

IsNaN3(v) == "nan" \in DOMAIN v

Add3(a, b) == Vec(a.x + b.x, a.y + b.y, a.z + b.z)

Sub3(a, b) == Vec(a.x - b.x, a.y - b.y, a.z - b.z)

Dot3(a, b) == a.x * b.x + a.y * b.y + a.z * b.z

\* v * deltaTime, deltaTime = dtMs / 1000
Scale(v, dtMs) == Vec((v.x * dtMs) \div 1000, (v.y * dtMs) \div 1000, (v.z * dtMs) \div 1000)

----------------------------------------------------------------------------
(* The entity store: src/server/GameState.ts *)

NoPlayer == "nobody"

\* the ids of the players in the store
Present == DOMAIN players

\* getSpawnPosition: the pool the position is drawn from
SpawnPool(team, mode) ==
    IF team # NoTeam /\ mode = "team" THEN TEAM_SPAWNS[team] ELSE SPAWN_POSITIONS

\* getSpawnPosition, roll being Math.floor(Math.random() * spawns.length)
getSpawnPosition(team, mode, roll) == SpawnPool(team, mode)[roll + 1]

\* the values the roll can take for a pool
ValidRoll(team, mode, roll) == roll >= 0 /\ roll < Len(SpawnPool(team, mode))

\* "rotation: { x: 0, y: 0, z: 0, w: 1 }", the angles in units of 0.0001
NoRotation == [x |-> 0, y |-> 0, z |-> 0, w |-> 1]

\* "const rotSpeed = 0.03", for an axis in tenths and an angle in units of 0.0001
RotSpeed == 30

\* addPlayer: the PlayerState it builds; lastUpdateTime, a Date.now() stamp the server
\* writes and never reads, is left out
NewPlayer(id, team, mode, spawnPos) ==
    [ id       |-> id,
      position |-> spawnPos,
      rotation |-> NoRotation,
      velocity |-> Zero3,
      health   |-> PLAYER_MAX_HEALTH,
      maxHealth |-> PLAYER_MAX_HEALTH,
      shield   |-> 0,
      score    |-> 0,
      kills    |-> 0,
      deaths   |-> 0,
      team     |-> IF mode = "team" THEN (IF team # NoTeam THEN team ELSE "red") ELSE NoTeam,
      isAlive  |-> TRUE ]

\* Map.set: a new key goes to the end of the iteration order, an old key keeps its place
MapSet(pl, id, rec) == [k \in (DOMAIN pl) \cup {id} |-> IF k = id THEN rec ELSE pl[k]]

OrderSet(ord, id) ==
    IF \E i \in 1..Len(ord) : ord[i] = id THEN ord ELSE Append(ord, id)

\* Map.delete
MapDelete(pl, id) == [k \in (DOMAIN pl) \ {id} |-> pl[k]]

OrderDelete(ord, id) == SelectSeq(ord, LAMBDA k : k # id)

\* a removal that leaves the projectiles of the player in the store
PurgeNothing(projs, id) == projs

\* removePlayer: the projectiles that stay
PurgeProjectiles(projs, id) == SelectSeq(projs, LAMBDA p : p.ownerId # id)

\* updatePlayerInput on a living player
ApplyInput(player, input) ==
    LET speed == PLAYER_SPEED * (IF input.boost THEN PLAYER_BOOST_MULTIPLIER ELSE 1)
    IN  [player EXCEPT !.velocity = Vec((input.strafe * speed) \div 10,
                                        (input.vertical * speed) \div 10,
                                        (input.forward * speed) \div 10),
                       !.rotation.x = @ + input.pitch * RotSpeed,
                       !.rotation.y = @ + input.yaw * RotSpeed,
                       !.rotation.z = @ + input.roll * RotSpeed]

\* an updatePlayerInput that does not look at isAlive
updatePlayerInputOfTheDead(pl, id, input) ==
    IF id \notin DOMAIN pl THEN pl
    ELSE [pl EXCEPT ![id] = ApplyInput(pl[id], input)]

\* updatePlayerInput
updatePlayerInput(pl, id, input) ==
    IF id \notin DOMAIN pl THEN pl
    ELSE IF ~pl[id].isAlive THEN pl
    ELSE [pl EXCEPT ![id] = ApplyInput(pl[id], input)]

\* playerShoot: speed and damage of a projectile type
ProjectileSpeed(type) ==
    CASE type = "missile" -> MISSILE_SPEED
      [] type = "plasma"  -> PLASMA_SPEED
      [] OTHER            -> LASER_SPEED

ProjectileDamage(type) ==
    CASE type = "missile" -> MISSILE_DAMAGE
      [] type = "plasma"  -> PLASMA_DAMAGE
      [] OTHER            -> LASER_DAMAGE

\* playerShoot: the ProjectileState it builds
NewProjectile(counter, player, type, direction, time) ==
    [ id        |-> counter,
      ownerId   |-> player.id,
      type      |-> type,
      position  |-> player.position,
      velocity  |-> Vec(direction.x * ProjectileSpeed(type),
                        direction.y * ProjectileSpeed(type),
                        direction.z * ProjectileSpeed(type)),
      damage    |-> ProjectileDamage(type),
      createdAt |-> time ]

\* a respawn that leaves the velocity as it was
RespawnedStillFlying(player, spawnPos) ==
    [player EXCEPT !.position = spawnPos,
                   !.rotation = NoRotation,
                   !.health = PLAYER_MAX_HEALTH,
                   !.shield = 0,
                   !.isAlive = TRUE]

\* a respawn that starts the player's statistics anew
RespawnedFromScratch(player, spawnPos) ==
    [player EXCEPT !.position = spawnPos,
                   !.rotation = NoRotation,
                   !.velocity = Zero3,
                   !.health = PLAYER_MAX_HEALTH,
                   !.shield = 0,
                   !.isAlive = TRUE,
                   !.kills = 0,
                   !.deaths = 0,
                   !.score = 0]

\* respawnPlayer: the player after it, at spawn position spawnPos
Respawned(player, spawnPos) ==
    [player EXCEPT !.position = spawnPos,
                   !.rotation = NoRotation,
                   !.velocity = Zero3,
                   !.health = PLAYER_MAX_HEALTH,
                   !.shield = 0,
                   !.isAlive = TRUE]

\* a respawn that adds the player it does not find
respawnPlayerOrAdd(pl, id, mode, roll) ==
    IF id \notin DOMAIN pl
    THEN MapSet(pl, id, NewPlayer(id, NoTeam, mode, getSpawnPosition(NoTeam, mode, roll)))
    ELSE [pl EXCEPT ![id] = Respawned(pl[id], getSpawnPosition(pl[id].team, mode, roll))]

\* respawnPlayer, roll being the roll of getSpawnPosition
respawnPlayer(pl, id, mode, roll) ==
    IF id \notin DOMAIN pl THEN pl
    ELSE [pl EXCEPT ![id] = Respawned(pl[id], getSpawnPosition(pl[id].team, mode, roll))]

\* a pickup that adds without the Math.min caps
applyPowerUpUncapped(player, type) ==
    CASE type = "health" -> [player EXCEPT !.health = player.health + HealthBoost]
      [] type = "shield" -> [player EXCEPT !.shield = player.shield + ShieldBoost]
      [] OTHER -> player

\* applyPowerUp
applyPowerUp(player, type) ==
    CASE type = "health" ->
            [player EXCEPT !.health = Min(player.maxHealth, player.health + HealthBoost)]
      [] type = "shield" ->
            [player EXCEPT !.shield = Min(PLAYER_MAX_SHIELD, player.shield + ShieldBoost)]
      [] OTHER -> player

----------------------------------------------------------------------------
(* update: movement *)

\* a clamp without its lower side
ClampUpperOnly(v, bounds) == Min(bounds, v)

\* Math.max(-bounds, Math.min(bounds, v))
Clamp(v, bounds) == Max(-bounds, Min(bounds, v))

\* the position before the clamp: position += velocity * deltaTime
Integrated(player, dtMs) == Add3(player.position, Scale(player.velocity, dtMs))

\* the three clamps
Clamp3(p, bounds) == Vec(Clamp(p.x, bounds), Clamp(p.y, bounds), Clamp(p.z, bounds))

\* one player of the "Update player positions" loop
MovePlayer(player, dtMs) ==
    IF ~player.isAlive THEN player
    ELSE [player EXCEPT !.position = Clamp3(Integrated(player, dtMs), WORLD_SIZE \div 2)]

MovePlayers(pl, dtMs) == [k \in DOMAIN pl |-> MovePlayer(pl[k], dtMs)]

----------------------------------------------------------------------------
(* update: projectiles and combat *)

\* the projectile's position after the tick when nothing is hit
NextPosition(proj, dtMs) == Add3(proj.position, Scale(proj.velocity, dtMs))

\* rayDir: the velocity, divided by its length when that is positive
Normalized(v, speed) ==
    IF speed > 0 THEN Vec(v.x \div speed, v.y \div speed, v.z \div speed) ELSE v

RayDir(proj) == Normalized(proj.velocity, Sqrt(Dot3(proj.velocity, proj.velocity)))

Length(v) == Sqrt(Dot3(v, v))

MoveDist(proj, dtMs) == Length(Scale(proj.velocity, dtMs))

\* the swept segment of a projectile in a tick
Segment(proj, dtMs) ==
    [ rayOrigin |-> proj.position, rayDir |-> RayDir(proj),
      next |-> NextPosition(proj, dtMs), moveDist |-> MoveDist(proj, dtMs) ]

\* the closest point of the segment to a player whose projection on the ray is t
Closest(seg, t) ==
    IF t <= 0 THEN seg.rayOrigin
    ELSE IF t >= seg.moveDist THEN seg.next
    ELSE Add3(seg.rayOrigin, Vec(seg.rayDir.x * t, seg.rayDir.y * t, seg.rayDir.z * t))

DistAlongRay(seg, t) ==
    IF t <= 0 THEN 0 ELSE IF t >= seg.moveDist THEN seg.moveDist ELSE t

\* distSq < hitRadius * hitRadius
WithinRadius(position, closest) ==
    Dot3(Sub3(position, closest), Sub3(position, closest)) < HitRadius * HitRadius

\* the segment-sphere test of a player at `position` whose projection on the ray is t
TestAt(seg, position, t) ==
    [ t |-> t, distAlongRay |-> DistAlongRay(seg, t),
      within |-> WithinRadius(position, Closest(seg, t)) ]

SegmentTest(seg, player) ==
    TestAt(seg, player.position, Dot3(Sub3(player.position, seg.rayOrigin), seg.rayDir))

\* a collision loop without the team check
EligibleAcrossTeams(proj, player, pl, mode) ==
    /\ player.isAlive
    /\ player.id # proj.ownerId

\* a collision loop without the isAlive check
EligibleDeadOrAlive(proj, player, pl, mode) ==
    /\ player.id # proj.ownerId
    /\ ~(mode = "team" /\ proj.ownerId \in DOMAIN pl
                       /\ pl[proj.ownerId].team = player.team)

\* the players the collision loop does not skip
Eligible(proj, player, pl, mode) ==
    /\ player.isAlive
    /\ player.id # proj.ownerId
    /\ ~(mode = "team" /\ proj.ownerId \in DOMAIN pl
                       /\ pl[proj.ownerId].team = player.team)

\* "if (distAlongRay < hitDist)": whether a hit replaces the best one so far
Closer(distAlongRay, best) == best.id = NoPlayer \/ distAlongRay < best.dist

\* one player of the collision loop: the best hit after it
ScanPlayer(proj, seg, player, test, pl, mode, best) ==
    IF Eligible(proj, player, pl, mode) /\ test.within /\ Closer(test.distAlongRay, best)
    THEN [id |-> player.id, dist |-> test.distAlongRay]
    ELSE best

\* the collision loop over the players Map, from the i-th key on
RECURSIVE ScanPlayers(_, _, _, _, _, _, _)
ScanPlayers(proj, seg, pl, ord, mode, i, best) ==
    IF i > Len(ord) THEN best
    ELSE ScanPlayers(proj, seg, pl, ord, mode, i + 1,
                     ScanPlayer(proj, seg, pl[ord[i]], SegmentTest(seg, pl[ord[i]]),
                                pl, mode, best))

\* hitPlayer (NoPlayer: null) and hitDist
FindHit(proj, seg, pl, ord, mode) ==
    ScanPlayers(proj, seg, pl, ord, mode, 1, [id |-> NoPlayer, dist |-> 0])

\* the shield's share of the damage
ShieldDamage(target, damage) ==
    IF target.shield > 0 THEN Min(target.shield, damage) ELSE 0

\* a hit whose whole damage reaches the health whatever the shield absorbed
ApplyDamageThroughShield(target, damage) ==
    [target EXCEPT !.shield = @ - ShieldDamage(target, damage),
                   !.health = @ - damage]

\* shield absorption and "hitPlayer.health -= damage" (before the clamp)
ApplyDamage(target, damage) ==
    [target EXCEPT !.shield = @ - ShieldDamage(target, damage),
                   !.health = @ - (damage - ShieldDamage(target, damage))]

\* the victim of a kill
MarkDead(target) ==
    [target EXCEPT !.health = 0, !.isAlive = FALSE, !.deaths = @ + 1]

\* a kill that is counted but not scored
CreditKillUnscored(attacker) ==
    [attacker EXCEPT !.kills = @ + 1]

\* the attacker of a kill
CreditKill(attacker) ==
    [attacker EXCEPT !.kills = @ + 1, !.score = @ + KillScore]

\* a team score that counts kills in every game mode
CreditTeamAnyMode(scores, mode, attacker) ==
    IF attacker.team # NoTeam
    THEN [scores EXCEPT ![attacker.team] = @ + 1]
    ELSE scores

\* teamScores after a kill by attacker
CreditTeam(scores, mode, attacker) ==
    IF mode = "team" /\ attacker.team # NoTeam
    THEN [scores EXCEPT ![attacker.team] = @ + 1]
    ELSE scores

\* "const attacker = this.players.get(proj.ownerId); if (attacker) ..."
CreditAttacker(pl, ownerId) ==
    IF ownerId \in DOMAIN pl THEN [pl EXCEPT ![ownerId] = CreditKill(pl[ownerId])] ELSE pl

\* the players after the kill of victimId by the owner of proj
KillPlayers(pl, victimId, proj) ==
    CreditAttacker([pl EXCEPT ![victimId] = MarkDead(pl[victimId])], proj.ownerId)

KillScores(scores, pl, mode, proj) ==
    IF proj.ownerId \in DOMAIN pl THEN CreditTeam(scores, mode, pl[proj.ownerId])
    ELSE scores

Reverse(seq) == [i \in 1..Len(seq) |-> seq[Len(seq) + 1 - i]]

HitEvent(proj, targetId, hurt) ==
    [ targetId |-> targetId, attackerId |-> proj.ownerId,
      damage |-> proj.damage, newHealth |-> hurt.health ]

KillEvent(proj, target) ==
    [ victimId |-> target.id, killerId |-> proj.ownerId,
      weapon |-> proj.type, position |-> target.position ]

\* history: what a hit found and what it did
LogEntry(proj, target, after, found, reverseTarget, rival, killed) ==
    [ projId |-> proj.id, targetId |-> target.id, attackerId |-> proj.ownerId,
      damage |-> proj.damage,
      shieldBefore |-> target.shield, healthBefore |-> target.health,
      shieldAfter |-> after.shield, healthAfter |-> after.health,
      killed |-> killed, dist |-> found.dist, reverseTarget |-> reverseTarget,
      rival |-> rival ]

\* the "if (hitPlayer.health <= 0)" branch taken or not
Settle(st, proj, target, hurt, found, reverseTarget, rival, mode, killed) ==
    [ st EXCEPT
        !.remove  = @ \cup {proj.id},
        !.players = IF killed
                    THEN KillPlayers([@ EXCEPT ![target.id] = hurt], target.id, proj)
                    ELSE [@ EXCEPT ![target.id] = hurt],
        !.teamScores = IF killed THEN KillScores(@, st.players, mode, proj) ELSE @,
        !.hits    = Append(@, HitEvent(proj, target.id, hurt)),
        !.kills   = IF killed THEN Append(@, KillEvent(proj, target)) ELSE @,
        !.hitLog  = Append(@, LogEntry(proj, target,
                                       IF killed THEN MarkDead(hurt) ELSE hurt,
                                       found, reverseTarget, rival, killed)) ]

\* a projectile that hits: st is the tick's state so far
RegisterHit(st, proj, target, hurt, found, reverseTarget, rival, mode) ==
    Settle(st, proj, target, hurt, found, reverseTarget, rival, mode, hurt.health <= 0)

OutOfWorld(next, bounds) ==
    Abs(next.x) > bounds \/ Abs(next.y) > bounds \/ Abs(next.z) > bounds

\* a miss with no time-to-live
RegisterMissForever(st, proj, next, time) ==
    IF OutOfWorld(next, WORLD_SIZE \div 2)
    THEN [st EXCEPT !.remove = @ \cup {proj.id}]
    ELSE [st EXCEPT !.moved = [@ EXCEPT ![proj.id] = next]]

\* a projectile that hits nobody: time-to-live, world bounds, or the move
RegisterMiss(st, proj, next, time) ==
    IF time - proj.createdAt > ProjectileLifetime
    THEN [st EXCEPT !.remove = @ \cup {proj.id}]
    ELSE IF OutOfWorld(next, WORLD_SIZE \div 2)
    THEN [st EXCEPT !.remove = @ \cup {proj.id}]
    ELSE [st EXCEPT !.moved = [@ EXCEPT ![proj.id] = next]]

\* history: the players with the hit one taken out of the collision loop
Without(pl, id) == [pl EXCEPT ![id].isAlive = FALSE]

\* hit or miss, found being the result of the collision loop
Resolve(st, proj, seg, ord, found, reverseTarget, mode, time) ==
    IF found.id # NoPlayer
    THEN RegisterHit(st, proj, st.players[found.id],
                     ApplyDamage(st.players[found.id], proj.damage),
                     found, reverseTarget,
                     FindHit(proj, seg, Without(st.players, found.id), ord, mode), mode)
    ELSE RegisterMiss(st, proj, seg.next, time)

ResolveWith(st, proj, seg, ord, mode, time) ==
    Resolve(st, proj, seg, ord, FindHit(proj, seg, st.players, ord, mode),
            FindHit(proj, seg, st.players, Reverse(ord), mode).id, mode, time)

\* a projectile whose velocity is NaN: every comparison with NaN is false, so no player
\* is within the hit radius and no bound is exceeded; its next position is NaN
RegisterNaN(st, proj, time) ==
    IF time - proj.createdAt > ProjectileLifetime
    THEN [st EXCEPT !.remove = @ \cup {proj.id}]
    ELSE [st EXCEPT !.moved = [@ EXCEPT ![proj.id] = NaN3]]

\* one projectile of the "Update projectiles" loop
ResolveProjectile(st, proj, ord, mode, dtMs, time) ==
    IF IsNaN3(proj.velocity) THEN RegisterNaN(st, proj, time)
    ELSE ResolveWith(st, proj, Segment(proj, dtMs), ord, mode, time)

RECURSIVE ResolveProjectiles(_, _, _, _, _, _, _)
ResolveProjectiles(st, projs, ord, mode, dtMs, time, i) ==
    IF i > Len(projs) THEN st
    ELSE ResolveProjectiles(ResolveProjectile(st, projs[i], ord, mode, dtMs, time),
                            projs, ord, mode, dtMs, time, i + 1)

\* this.projectiles.filter(p => !projectilesToRemove.includes(p.id)), positions committed
Committed(kept, moved) ==
    [i \in 1..Len(kept) |-> [kept[i] EXCEPT !.position = moved[kept[i].id]]]

KeepProjectiles(projs, remove, moved) ==
    Committed(SelectSeq(projs, LAMBDA p : p.id \notin remove), moved)

\* the positions of the projectiles before the loop, by id
Positions(projs) ==
    [id \in {projs[k].id : k \in 1..Len(projs)} |->
        projs[CHOOSE k \in 1..Len(projs) : projs[k].id = id].position]

----------------------------------------------------------------------------
(* update: power-ups *)

Distance(a, b) == Length(Sub3(a, b))

\* a pickup loop without the isAlive check
InPickupRangeDeadOrAlive(player, i) ==
    Distance(player.position, POWERUP_POSITIONS[i]) < PickupRadius

\* whether the pickup loop gives power-up i to the player
InPickupRange(player, i) ==
    player.isAlive /\ Distance(player.position, POWERUP_POSITIONS[i]) < PickupRadius

\* a pickup of power-up i by the player with id k
Collect(st, i, k, time) ==
    [ st EXCEPT
        !.players[k] = applyPowerUp(@, PowerUpType(i)),
        !.powerUps[i] = [isActive |-> FALSE, respawnTime |-> time + POWERUP_RESPAWN_TIME],
        !.collected = Append(@, [ powerUpId |-> i, playerId |-> k,
                                  type |-> PowerUpType(i) ]) ]

\* the players.forEach of an active power-up i, from the j-th key on
RECURSIVE CollectFrom(_, _, _, _, _)
CollectFrom(st, i, ord, time, j) ==
    IF j > Len(ord) THEN st
    ELSE IF InPickupRange(st.players[ord[j]], i)
    THEN CollectFrom(Collect(st, i, ord[j], time), i, ord, time, j + 1)
    ELSE CollectFrom(st, i, ord, time, j + 1)

\* a power-up loop that reactivates only after the respawn time has passed
UpdatePowerUpLate(st, i, ord, time) ==
    IF ~st.powerUps[i].isActive
    THEN IF time > st.powerUps[i].respawnTime
         THEN [st EXCEPT !.powerUps[i].isActive = TRUE]
         ELSE st
    ELSE CollectFrom(st, i, ord, time, 1)

\* one power-up of the "Update power-ups" loop
UpdatePowerUp(st, i, ord, time) ==
    IF ~st.powerUps[i].isActive
    THEN IF time >= st.powerUps[i].respawnTime
         THEN [st EXCEPT !.powerUps[i].isActive = TRUE]
         ELSE st
    ELSE CollectFrom(st, i, ord, time, 1)

RECURSIVE UpdatePowerUps(_, _, _, _)
UpdatePowerUps(st, ord, time, i) ==
    IF i > Len(st.powerUps) THEN st
    ELSE UpdatePowerUps(UpdatePowerUp(st, i, ord, time), ord, time, i + 1)

----------------------------------------------------------------------------
(* practice mode: the bots *)

\* enablePracticeMode(3, isPassive) of the join handler
NumBots == 3

\* `bot_${this.botIdCounter++}`; the bots Map is iterated in this order
BOT_IDS == <<"bot_0", "bot_1", "bot_2">>

\* "botState.respawnTime = now + 3000"
BotRespawnDelay == 3000

\* "this.isPracticeMode ? 20 : 25" and the three lines like it
BotSpeed(practice) == IF practice THEN 20 ELSE 25

ChaseRange(practice) == IF practice THEN 1000 ELSE 300

ShootRange(practice) == IF practice THEN 150 ELSE 200

ShootCooldown(practice) == IF practice THEN 800 ELSE 500

\* "Date.now() + 2000 + Math.random() * 3000", delay being the random part in ms
DirectionTime(time, delay) == time + 2000 + delay

\* spawnBot: the PlayerState it builds, team null in every game mode
NewBot(id, spawnPos, facing) ==
    [ NewPlayer(id, NoTeam, "ffa", spawnPos) EXCEPT !.team = NoTeam,
                                                     !.rotation.y = facing ]

\* spawnBot: the BotState it builds; nearest is history, the nearestPlayer the bot found
\* in the last updateBots
NewBotState(dice, time) ==
    [ targetId |-> NoPlayer, lastShootTime |-> 0, moveDirection |-> dice.direction,
      changeDirectionTime |-> DirectionTime(time, dice.delay), respawnTime |-> 0,
      nearest |-> NoPlayer ]

\* spawnBot, roll being the roll of getSpawnPosition(null)
spawnBot(st, roll, dice, time) ==
    [ st EXCEPT
        !.players = MapSet(@, BOT_IDS[st.botIdCounter + 1],
                           NewBot(BOT_IDS[st.botIdCounter + 1], SPAWN_POSITIONS[roll + 1],
                                  dice.facing)),
        !.order = OrderSet(@, BOT_IDS[st.botIdCounter + 1]),
        !.bots = MapSet(@, BOT_IDS[st.botIdCounter + 1], NewBotState(dice, time)),
        !.botIdCounter = @ + 1 ]

\* the loop of enablePracticeMode from its i-th round on
RECURSIVE SpawnBots(_, _, _, _, _)
SpawnBots(st, rolls, dice, time, i) ==
    IF i > NumBots THEN st
    ELSE SpawnBots(spawnBot(st, rolls[i], dice, time), rolls, dice, time, i + 1)

\* enablePracticeMode(NumBots, isPassive)
enablePracticeMode(st, isPassive, rolls, dice, time) ==
    SpawnBots([st EXCEPT !.isPracticeMode = TRUE, !.botsArePassive = isPassive],
              rolls, dice, time, 1)

\* a join handler in which a later practice join sets the passive flag again
JoinedPracticeReflagged(st, data, rolls, dice, time) ==
    IF data.mode = "practice"
    THEN IF ~st.isPracticeMode
         THEN enablePracticeMode(st, data.botBehavior = "passive", rolls, dice, time)
         ELSE [st EXCEPT !.botsArePassive = (data.botBehavior = "passive")]
    ELSE st

\* the join handler after addPlayer: "if (mode === 'practice' && !gameState.isPracticeMode)"
JoinedPractice(st, data, rolls, dice, time) ==
    IF data.mode = "practice" /\ ~st.isPracticeMode
    THEN enablePracticeMode(st, data.botBehavior = "passive", rolls, dice, time)
    ELSE st

\* updateBots: the first bot of the Map that is in the store and alive
ActiveAttackingBot(pl, bts) ==
    IF \E i \in 1..Len(BOT_IDS) :
           BOT_IDS[i] \in DOMAIN bts /\ BOT_IDS[i] \in DOMAIN pl /\ pl[BOT_IDS[i]].isAlive
    THEN BOT_IDS[CHOOSE i \in 1..Len(BOT_IDS) :
                     /\ BOT_IDS[i] \in DOMAIN bts /\ BOT_IDS[i] \in DOMAIN pl
                     /\ pl[BOT_IDS[i]].isAlive
                     /\ \A j \in 1..(i - 1) :
                            ~(BOT_IDS[j] \in DOMAIN bts /\ BOT_IDS[j] \in DOMAIN pl
                              /\ pl[BOT_IDS[j]].isAlive)]
    ELSE NoPlayer

\* a dead bot that comes back one second before its respawn time
DeadBotEarly(st, b, mode, time, roll) ==
    IF st.bots[b].respawnTime = 0
    THEN [st EXCEPT !.bots[b].respawnTime = time + BotRespawnDelay]
    ELSE IF time + 1000 >= st.bots[b].respawnTime
    THEN [st EXCEPT !.players = respawnPlayer(@, b, mode, roll),
                    !.bots[b].respawnTime = 0]
    ELSE st

\* updateBots: "if (!bot.isAlive)"
DeadBot(st, b, mode, time, roll) ==
    IF st.bots[b].respawnTime = 0
    THEN [st EXCEPT !.bots[b].respawnTime = time + BotRespawnDelay]
    ELSE IF time >= st.bots[b].respawnTime
    THEN [st EXCEPT !.players = respawnPlayer(@, b, mode, roll),
                    !.bots[b].respawnTime = 0]
    ELSE st

\* "bot.velocity.x *= 0.9" on the three axes
Waiting(v) == Vec((v.x * 9) \div 10, (v.y * 9) \div 10, (v.z * 9) \div 10)

\* the players a bot looks at: not itself, alive, not a bot
Targets(pl, bts, b) ==
    { id \in DOMAIN pl : id # b /\ pl[id].isAlive /\ id \notin DOMAIN bts }

\* the distance of a player from a bot
Away(pl, id, b) == Length(Sub3(pl[id].position, pl[b].position))

\* the nearestPlayer search: the first of the nearest players in the iteration order
NearestPlayer(pl, ord, bts, b) ==
    IF Targets(pl, bts, b) = {} THEN NoPlayer
    ELSE ord[CHOOSE i \in 1..Len(ord) :
                 /\ ord[i] \in Targets(pl, bts, b)
                 /\ \A j \in 1..Len(ord) :
                        ord[j] \in Targets(pl, bts, b)
                            => \/ Away(pl, ord[i], b) < Away(pl, ord[j], b)
                               \/ Away(pl, ord[i], b) = Away(pl, ord[j], b) /\ i <= j]

\* "if (now >= botState.changeDirectionTime)"
Redirected(bot, dice, time) ==
    IF time >= bot.changeDirectionTime
    THEN [bot EXCEPT !.moveDirection = dice.direction,
                     !.changeDirectionTime = DirectionTime(time, dice.delay)]
    ELSE bot

\* (d / len) * speed on the three axes
Towards(d, len, speed) ==
    Vec((d.x * speed) \div len, (d.y * speed) \div len, (d.z * speed) \div len)

\* the velocity of the bot's shot, (d / len) * speed; d is (0, 0, 0) when len is 0, and
\* 0 / 0 is NaN
Aimed(d, len, speed) == IF len = 0 THEN NaN3 ELSE Towards(d, len, speed)

\* the bot's shot: playerShoot(botId, { type: 'laser', direction: d / len })
BotShoots(st, b, d, len, time) ==
    [ st EXCEPT
        !.bots[b].lastShootTime = time,
        !.projectiles = Append(@, [NewProjectile(st.projectileIdCounter, st.players[b],
                                                 "laser", Zero3, time)
                                       EXCEPT !.velocity =
                                                  Aimed(d, len, ProjectileSpeed("laser"))]),
        !.projectileIdCounter = @ + 1 ]

\* Math.PI in units of 0.0001
Pi == 31416

\* "bot.rotation.y = Math.atan2(dx, dz)" in units of 0.0001, for a target on one of the
\* two axes
Atan2(dx, dz) ==
    CASE dx = 0 /\ dz >= 0 -> 0
      [] dx = 0 /\ dz < 0  -> Pi
      [] dz = 0 /\ dx > 0  -> Pi \div 2
      [] dz = 0 /\ dx < 0  -> 0 - (Pi \div 2)

\* "Shoot at player": in range and cooled down
MayShoot(st, b, len, practice, time) ==
    IF len < ShootRange(practice)
       /\ time - st.bots[b].lastShootTime > ShootCooldown(practice)
    THEN BotShoots(st, b, Sub3(st.players[st.bots[b].nearest].position,
                               st.players[b].position), len, time)
    ELSE st

\* "Chase player": the velocity turns to the target when it is not at the bot's place
Chase(st, b, d, len, practice, time) ==
    MayShoot(IF len > 0
             THEN [st EXCEPT !.players[b].velocity = Towards(d, len, BotSpeed(practice)),
                             !.players[b].rotation.y = Atan2(d.x, d.z)]
             ELSE st,
             b, len, practice, time)

\* "Random movement"
Wander(st, b, practice) ==
    [ st EXCEPT !.players[b].velocity =
                    Vec(st.bots[b].moveDirection.x * BotSpeed(practice),
                        st.bots[b].moveDirection.y * BotSpeed(practice),
                        st.bots[b].moveDirection.z * BotSpeed(practice)) ]

\* chase or wander, target being the nearestPlayer
ChaseOrWander(st, b, target, practice, time) ==
    IF target # NoPlayer /\ Away(st.players, target, b) < ChaseRange(practice)
    THEN Chase(st, b, Sub3(st.players[target].position, st.players[b].position),
               Away(st.players, target, b), practice, time)
    ELSE Wander(st, b, practice)

\* the bot that attacks
Hunt(st, b, ord, target, practice, dice, time) ==
    ChaseOrWander([st EXCEPT !.bots[b] = [Redirected(@, dice, time)
                                              EXCEPT !.nearest = target]],
                  b, target, practice, time)

\* a living bot with no waiting: every bot hunts
LivingBotAllHunt(st, b, ord, active, dice, time) ==
    IF st.botsArePassive
    THEN [st EXCEPT !.players[b].velocity = Zero3]
    ELSE Hunt(st, b, ord, NearestPlayer(st.players, ord, st.bots, b), st.isPracticeMode,
              dice, time)

\* a living bot that does not look at the passive flag
LivingBotNeverPassive(st, b, ord, active, dice, time) ==
    IF st.isPracticeMode /\ active # b
    THEN [st EXCEPT !.players[b].velocity = Waiting(@)]
    ELSE Hunt(st, b, ord, NearestPlayer(st.players, ord, st.bots, b), st.isPracticeMode,
              dice, time)

\* updateBots: a living bot
LivingBot(st, b, ord, active, dice, time) ==
    IF st.botsArePassive
    THEN [st EXCEPT !.players[b].velocity = Zero3]
    ELSE IF st.isPracticeMode /\ active # b
    THEN [st EXCEPT !.players[b].velocity = Waiting(@)]
    ELSE Hunt(st, b, ord, NearestPlayer(st.players, ord, st.bots, b), st.isPracticeMode,
              dice, time)

\* updateBots: one round of this.bots.forEach
UpdateBot(st, b, ord, active, mode, dice, time) ==
    IF b \notin DOMAIN st.players THEN st
    ELSE IF ~st.players[b].isAlive THEN DeadBot(st, b, mode, time, dice.respawn)
    ELSE LivingBot(st, b, ord, active, dice, time)

RECURSIVE UpdateBotsFrom(_, _, _, _, _, _, _)
UpdateBotsFrom(st, ord, active, mode, dice, time, i) ==
    IF i > Len(BOT_IDS) THEN st
    ELSE IF BOT_IDS[i] \notin DOMAIN st.bots
    THEN UpdateBotsFrom(st, ord, active, mode, dice, time, i + 1)
    ELSE UpdateBotsFrom(UpdateBot(st, BOT_IDS[i], ord, active, mode, dice, time),
                        ord, active, mode, dice, time, i + 1)

\* updateBots at time `time`
updateBots(st, ord, mode, dice, time) ==
    UpdateBotsFrom(st, ord, ActiveAttackingBot(st.players, st.bots), mode, dice, time, 1)

\* update: "if (this.isPracticeMode) this.updateBots(deltaTime)"
BotsUpdated(st, ord, mode, dice, time) ==
    IF st.isPracticeMode THEN updateBots(st, ord, mode, dice, time) ELSE st

----------------------------------------------------------------------------
(* update, as the game loop calls it *)

\* the state the projectile loop starts from
CombatStart(pl, projs, scores) ==
    [ players |-> pl, teamScores |-> scores, hits |-> <<>>, kills |-> <<>>,
      hitLog |-> <<>>, remove |-> {}, moved |-> Positions(projs) ]

\* the state the power-up loop starts from
PowerStart(combat, pus) ==
    [ players |-> combat.players, powerUps |-> pus, collected |-> <<>> ]

\* what update leaves and returns
Outcome(combat, power, projs) ==
    [ players     |-> power.players,
      projectiles |-> KeepProjectiles(projs, combat.remove, combat.moved),
      powerUps    |-> power.powerUps,
      teamScores  |-> combat.teamScores,
      hits        |-> combat.hits,
      kills       |-> combat.kills,
      hitLog      |-> combat.hitLog,
      collected   |-> power.collected ]

AfterCombat(combat, pus, projs, ord, time) ==
    Outcome(combat, UpdatePowerUps(PowerStart(combat, pus), ord, time, 1), projs)

\* an update whose projectile loop runs before the movement
UpdateCombatFirst(pl, ord, projs, pus, scores, mode, dtMs, time) ==
    AfterCombat([ResolveProjectiles(CombatStart(pl, projs, scores),
                                    projs, ord, mode, dtMs, time, 1)
                     EXCEPT !.players = MovePlayers(@, dtMs)],
                pus, projs, ord, time)

\* update(deltaTime) at time `time`, deltaTime = dtMs / 1000: movement, combat, power-ups
Update(pl, ord, projs, pus, scores, mode, dtMs, time) ==
    AfterCombat(ResolveProjectiles(CombatStart(MovePlayers(pl, dtMs), projs, scores),
                                   projs, ord, mode, dtMs, time, 1),
                pus, projs, ord, time)

----------------------------------------------------------------------------
(* The state machine *)

\* serialize(): the players by id, and the store's own projectiles, powerUps and teamScores
serialize(pl, projs, pus, mode, scores, time) ==
    [ players |-> pl, projectiles |-> projs, powerUps |-> pus, gameMode |-> mode,
      teamScores |-> scores, serverTime |-> time ]

\* no serialize() result is held
NoSnapshot == [ held |-> FALSE ]

\* a serialize() result as its receiver gets it: every player object, the projectiles
\* array and the teamScores object are the store's own
Received(value) ==
    [ held |-> TRUE, taken |-> value, seen |-> value,
      live |-> [ players |-> DOMAIN value.players, projectiles |-> TRUE,
                 teamScores |-> TRUE ] ]

\* the projectiles array of a snapshot after the store got a new array by filter(): it
\* keeps its elements, and those still in the store are the store's objects
FormerArray(held, projs) ==
    [ k \in 1..Len(held) |->
        IF \E j \in 1..Len(projs) : projs[j].id = held[k].id
        THEN projs[CHOOSE j \in 1..Len(projs) : projs[j].id = held[k].id]
        ELSE held[k] ]

\* what a snapshot holds after a handler: the player objects, the projectiles array and
\* the teamScores object it shares with the store hold the store's values, the powerUps
\* array is never replaced, gameMode and serverTime are values
SeenThrough(seen, live, pl, projs, pus, scores) ==
    [ players     |-> [ id \in DOMAIN seen.players |->
                          IF id \in live.players THEN pl[id] ELSE seen.players[id] ],
      projectiles |-> IF live.projectiles THEN projs
                      ELSE FormerArray(seen.projectiles, projs),
      powerUps    |-> pus,
      gameMode    |-> seen.gameMode,
      teamScores  |-> IF live.teamScores THEN scores ELSE seen.teamScores,
      serverTime  |-> seen.serverTime ]

\* the objects of a snapshot the store still uses after a handler that replaced the
\* player objects `replaced`, and the projectiles array or the teamScores object if told so
StillLive(live, replaced, newArray, newScores) ==
    [ players    |-> live.players \ replaced,
      projectiles |-> live.projectiles /\ ~newArray,
      teamScores |-> live.teamScores /\ ~newScores ]

Aliased(snap, live, pl, projs, pus, scores) ==
    [ snap EXCEPT !.live = live,
                  !.seen = SeenThrough(snap.seen, live, pl, projs, pus, scores) ]

\* the held snapshot after a handler that left the store as pl, projs, pus, scores
Held(snap, replaced, newArray, newScores, pl, projs, pus, scores) ==
    IF ~snap.held THEN snap
    ELSE Aliased(snap, StillLive(snap.live, replaced, newArray, newScores),
                 pl, projs, pus, scores)

\* the held snapshot after a handler that emits serialize(): kept says whether the
\* receiver holds on to the new one
Emitted(kept, snap, replaced, newArray, pl, projs, pus, mode, scores, time) ==
    IF kept THEN Received(serialize(pl, projs, pus, mode, scores, time))
    ELSE Held(snap, replaced, newArray, FALSE, pl, projs, pus, scores)

NoEvents ==
    /\ hits' = <<>>
    /\ kills' = <<>>
    /\ powerUpsCollected' = <<>>
    /\ hitLog' = <<>>

Init ==
    /\ players = [k \in {} |-> 0]
    /\ order = <<>>
    /\ projectiles = <<>>
    /\ powerUps = [i \in 1..Len(POWERUP_POSITIONS) |-> [isActive |-> TRUE, respawnTime |-> 0]]
    /\ gameMode = "ffa"
    /\ teamScores = [red |-> 0, blue |-> 0]
    /\ projectileIdCounter = 0
    /\ now = 0
    /\ hits = <<>>
    /\ kills = <<>>
    /\ powerUpsCollected = <<>>
    /\ hitLog = <<>>
    /\ outcome = "done"
    /\ bots = [k \in {} |-> 0]
    /\ isPracticeMode = FALSE
    /\ botsArePassive = FALSE
    /\ botIdCounter = 0
    /\ snapshot = NoSnapshot

\* what the join handler leaves in the store
Joined(st) ==
    /\ players' = st.players
    /\ order' = st.order
    /\ bots' = st.bots
    /\ isPracticeMode' = st.isPracticeMode
    /\ botsArePassive' = st.botsArePassive
    /\ botIdCounter' = st.botIdCounter

\* the store after addPlayer(id, name, team)
Added(s, team, roll) ==
    [ players |-> MapSet(players, s,
                         NewPlayer(s, team, gameMode, getSpawnPosition(team, gameMode, roll))),
      order |-> OrderSet(order, s), bots |-> bots, isPracticeMode |-> isPracticeMode,
      botsArePassive |-> botsArePassive, botIdCounter |-> botIdCounter ]

\* socket.on('player:join'): addPlayer(socket.id, name, team), enablePracticeMode for the
\* first join with mode 'practice', game:init with serialize(); roll, rolls and dice are
\* what Math.random() yields for the player, for the three bots and for their BotState
PlayerJoin(s, data, roll, rolls, dice, kept) ==
    /\ ValidRoll(data.team, gameMode, roll)
    /\ Joined(JoinedPractice(Added(s, data.team, roll), data, rolls, dice, now))
    /\ outcome' = "done"
    /\ NoEvents
    /\ UNCHANGED <<projectiles, powerUps, gameMode, teamScores, projectileIdCounter, now>>
    /\ snapshot' = Emitted(kept, snapshot, {s}, FALSE, players', projectiles', powerUps',
                           gameMode', teamScores', now')

\* no Math.random() value is used
NoDice == [ respawn |-> 0, direction |-> Zero3, delay |-> 0, facing |-> 0 ]

\* a join with no mode in its data
Join(s, team, roll, kept) ==
    PlayerJoin(s, [team |-> team, mode |-> "", botBehavior |-> ""], roll, <<>>, NoDice, kept)

\* "if (playerId)" of a handler and "if (!player) return" of the method it calls
Handled(s) == IF s \in Present THEN "done" ELSE "ignored"

\* "if (!player || !player.isAlive) return" of updatePlayerInput and playerShoot
Heeded(s) ==
    IF s \notin Present THEN "ignored" ELSE IF ~players[s].isAlive THEN "dead" ELSE "done"

\* socket.on('player:input'): updatePlayerInput
Input(s, input) ==
    /\ players' = updatePlayerInput(players, s, input)
    /\ outcome' = Heeded(s)
    /\ NoEvents
    /\ UNCHANGED <<order, projectiles, powerUps, gameMode, teamScores,
                   projectileIdCounter, now>>
    /\ UNCHANGED <<bots, isPracticeMode, botsArePassive, botIdCounter>>
    /\ snapshot' = Held(snapshot, {}, FALSE, FALSE, players', projectiles', powerUps',
                        teamScores')

\* socket.on('player:shoot'): playerShoot
Shoot(s, type, direction) ==
    /\ IF s \in Present /\ players[s].isAlive
       THEN /\ projectiles' = Append(projectiles,
                                  NewProjectile(projectileIdCounter, players[s], type,
                                                direction, now))
            /\ projectileIdCounter' = projectileIdCounter + 1
       ELSE UNCHANGED <<projectiles, projectileIdCounter>>
    /\ outcome' = Heeded(s)
    /\ NoEvents
    /\ UNCHANGED <<players, order, powerUps, gameMode, teamScores, now>>
    /\ UNCHANGED <<bots, isPracticeMode, botsArePassive, botIdCounter>>
    /\ snapshot' = Held(snapshot, {}, FALSE, FALSE, players', projectiles', powerUps',
                        teamScores')

\* socket.on('player:respawn'): respawnPlayer
Respawn(s, roll) ==
    /\ s \in Present => ValidRoll(players[s].team, gameMode, roll)
    /\ players' = respawnPlayer(players, s, gameMode, roll)
    /\ outcome' = Handled(s)
    /\ NoEvents
    /\ UNCHANGED <<order, projectiles, powerUps, gameMode, teamScores,
                   projectileIdCounter, now>>
    /\ UNCHANGED <<bots, isPracticeMode, botsArePassive, botIdCounter>>
    /\ snapshot' = Held(snapshot, {}, FALSE, FALSE, players', projectiles', powerUps',
                        teamScores')

\* socket.on('disconnect'): removePlayer
Disconnect(s) ==
    /\ players' = MapDelete(players, s)
    /\ order' = OrderDelete(order, s)
    /\ projectiles' = PurgeProjectiles(projectiles, s)
    /\ outcome' = Handled(s)
    /\ NoEvents
    /\ UNCHANGED <<powerUps, gameMode, teamScores, projectileIdCounter, now>>
    /\ UNCHANGED <<bots, isPracticeMode, botsArePassive, botIdCounter>>
    /\ snapshot' = Held(snapshot, {s}, s \in Present, FALSE, players', projectiles',
                        powerUps', teamScores')

\* a mode request that accepts every value
AnyMode(mode) == TRUE

\* "if (mode === 'ffa' || mode === 'team')"
ValidMode(mode) == mode = "ffa" \/ mode = "team"

\* app.post('/api/mode/:mode'): setGameMode for the two valid values, HTTP 400 for others
SetMode(mode) ==
    /\ IF ValidMode(mode)
       THEN /\ gameMode' = mode
            /\ teamScores' = [red |-> 0, blue |-> 0]
            /\ outcome' = "done"
       ELSE /\ UNCHANGED <<gameMode, teamScores>>
            /\ outcome' = "rejected"
    /\ NoEvents
    /\ UNCHANGED <<players, order, projectiles, powerUps, projectileIdCounter, now>>
    /\ UNCHANGED <<bots, isPracticeMode, botsArePassive, botIdCounter>>
    /\ snapshot' = Held(snapshot, {}, FALSE, ValidMode(mode), players', projectiles',
                        powerUps', teamScores')

\* the game loop's effect, r being what update did
Publish(r) ==
    /\ players' = r.players
    /\ projectiles' = r.projectiles
    /\ powerUps' = r.powerUps
    /\ teamScores' = r.teamScores
    /\ hits' = r.hits
    /\ kills' = r.kills
    /\ powerUpsCollected' = r.collected
    /\ hitLog' = r.hitLog

\* the store as updateBots finds it
BotsStart ==
    [ players |-> players, bots |-> bots, projectiles |-> projectiles,
      projectileIdCounter |-> projectileIdCounter, isPracticeMode |-> isPracticeMode,
      botsArePassive |-> botsArePassive ]

\* update after its updateBots call, b being what updateBots left
Updated(b, dtMs) ==
    /\ bots' = b.bots
    /\ projectileIdCounter' = b.projectileIdCounter
    /\ Publish(Update(b.players, order, b.projectiles, powerUps, teamScores, gameMode,
                      dtMs, now + dtMs))

\* gameLoop, dtMs milliseconds after the last one: update, then game:state with
\* serialize(); dice is what Math.random() yields in updateBots
GameLoop(dtMs, dice, kept) ==
    /\ Updated(BotsUpdated(BotsStart, order, gameMode, dice, now + dtMs), dtMs)
    /\ now' = now + dtMs
    /\ outcome' = "done"
    /\ UNCHANGED <<order, gameMode, isPracticeMode, botsArePassive, botIdCounter>>
    /\ snapshot' = Emitted(kept, snapshot, {}, TRUE, players', projectiles', powerUps',
                           gameMode', teamScores', now')

\* a game loop with no practice mode
Tick(dtMs, kept) == GameLoop(dtMs, NoDice, kept)

(* Spec: a gunner and a pilot, in both game modes *)
Next ==
    \/ \E j \in JOINS, roll \in RANDOM_ROLLS : Join(j[1], j[2], roll, FALSE)
    \/ \E s \in PILOTS \cap Present, input \in INPUTS : Input(s, input)
    \/ \E s \in GUNNERS \cap Present, type \in PROJECTILE_TYPES, direction \in DIRECTIONS :
           projectileIdCounter < MaxShots /\ Shoot(s, type, direction)
    \/ \E s \in PILOTS \cap Present, roll \in RANDOM_ROLLS : Respawn(s, roll)
    \/ \E s \in (GUNNERS \cup PILOTS) \cap Present : Disconnect(s)
    \/ \E mode \in MODES : SetMode(mode)
    \/ \E dtMs \in TickSteps : now + dtMs <= MaxSeconds * 1000 /\ Tick(dtMs, FALSE)

Spec == Init /\ [][Next]_vars

(* SpecFlight: a gunner, a pilot and a bystander in the free-for-all mode *)
NextFlight ==
    \/ \E s \in GUNNERS \cup PILOTS \cup BYSTANDERS, roll \in RANDOM_ROLLS :
           Join(s, NoTeam, roll, FALSE)
    \/ \E s \in PILOTS \cap Present, input \in FLIGHT_INPUTS : Input(s, input)
    \/ \E s \in GUNNERS \cap Present, type \in PROJECTILE_TYPES, direction \in FLIGHT_DIRECTIONS :
           projectileIdCounter < FlightShots /\ Shoot(s, type, direction)
    \/ \E s \in PILOTS \cap Present, roll \in RANDOM_ROLLS : Respawn(s, roll)
    \/ \E s \in (GUNNERS \cup PILOTS \cup BYSTANDERS) \cap Present : Disconnect(s)
    \/ \E dtMs \in TickSteps : now + dtMs <= FlightSeconds * 1000 /\ Tick(dtMs, FALSE)

SpecFlight == Init /\ [][NextFlight]_vars

(* SpecDuel: a gunner and a pilot that does not fly, in both game modes *)
NextDuel ==
    \/ \E j \in JOINS, roll \in RANDOM_ROLLS : Join(j[1], j[2], roll, FALSE)
    \/ \E s \in GUNNERS \cap Present, type \in PROJECTILE_TYPES, direction \in DIRECTIONS :
           projectileIdCounter < DuelShots /\ Shoot(s, type, direction)
    \/ \E s \in PILOTS \cap Present, roll \in RANDOM_ROLLS : Respawn(s, roll)
    \/ \E s \in (GUNNERS \cup PILOTS) \cap Present : Disconnect(s)
    \/ \E mode \in MODES : SetMode(mode)
    \/ \E dtMs \in TickSteps : now + dtMs <= DuelSeconds * 1000 /\ Tick(dtMs, FALSE)

SpecDuel == Init /\ [][NextDuel]_vars

(* SpecStray: requests that name no player of the store, and mode requests of any value *)
NextStray ==
    \/ \E j \in JOINS, roll \in RANDOM_ROLLS : Join(j[1], j[2], roll, FALSE)
    \/ \E s \in PILOTS, input \in INPUTS : Input(s, input)
    \/ \E s \in GUNNERS, type \in PROJECTILE_TYPES, direction \in DIRECTIONS :
           projectileIdCounter < StrayShots /\ Shoot(s, type, direction)
    \/ \E s \in PILOTS, roll \in RANDOM_ROLLS : Respawn(s, roll)
    \/ \E s \in GUNNERS \cup PILOTS : Disconnect(s)
    \/ \E mode \in MODE_REQUESTS : SetMode(mode)
    \/ \E dtMs \in TickSteps : now + dtMs <= StraySeconds * 1000 /\ Tick(dtMs, FALSE)

SpecStray == Init /\ [][NextStray]_vars

(* SpecCycle: players that stay where they spawn, over a whole power-up respawn time *)
NextCycle ==
    \/ \E j \in JOINS, roll \in RANDOM_ROLLS : Join(j[1], j[2], roll, FALSE)
    \/ \E s \in PILOTS \cap Present, roll \in RANDOM_ROLLS : Respawn(s, roll)
    \/ \E s \in (GUNNERS \cup PILOTS) \cap Present : Disconnect(s)
    \/ \E dtMs \in CYCLE_STEPS : now + dtMs <= CycleSeconds * 1000 /\ Tick(dtMs, FALSE)

SpecCycle == Init /\ [][NextCycle]_vars

(* SpecSnapshot: the receiver of a game:init or game:state message holds on to it;
   a gunner and a pilot in the free-for-all mode *)
NextSnapshot ==
    \/ \E s \in GUNNERS \cup PILOTS, roll \in RANDOM_ROLLS, kept \in BOOLEAN : Join(s, NoTeam, roll, kept)
    \/ \E s \in PILOTS \cap Present, input \in INPUTS : Input(s, input)
    \/ \E s \in GUNNERS \cap Present, type \in PROJECTILE_TYPES, direction \in DIRECTIONS :
           projectileIdCounter < SnapshotShots /\ Shoot(s, type, direction)
    \/ \E s \in PILOTS \cap Present, roll \in RANDOM_ROLLS : Respawn(s, roll)
    \/ \E s \in (GUNNERS \cup PILOTS) \cap Present : Disconnect(s)
    \/ \E dtMs \in TickSteps, kept \in BOOLEAN :
           now + dtMs <= SnapshotSeconds * 1000 /\ Tick(dtMs, kept)

SpecSnapshot == Init /\ [][NextSnapshot]_vars

(* SpecPractice: a gunner in practice mode, with three bots that attack or stand still *)
NextPractice ==
    \/ \E s \in GUNNERS, data \in PRACTICE_DATA, roll \in PRACTICE_ROLLS,
          rolls \in [1..NumBots -> BOT_ROLLS], dice \in DICE :
           PlayerJoin(s, data, roll, rolls, dice, FALSE)
    \/ \E s \in GUNNERS \cap Present, type \in PROJECTILE_TYPES, direction \in DIRECTIONS :
           projectileIdCounter < PracticeShots /\ Shoot(s, type, direction)
    \/ \E s \in GUNNERS \cap Present, roll \in PRACTICE_ROLLS : Respawn(s, roll)
    \/ \E s \in GUNNERS \cap Present : Disconnect(s)
    \/ \E dtMs \in TickSteps, dice \in DICE :
           now + dtMs <= PracticeSeconds * 1000 /\ GameLoop(dtMs, dice, FALSE)

SpecPractice == Init /\ [][NextPractice]_vars

(* SpecDrill: a gunner in practice mode with three bots that stand still, long enough
   for a bot to die twice *)
NextDrill ==
    \/ \E s \in GUNNERS, data \in DRILL_DATA, roll \in PRACTICE_ROLLS,
          rolls \in [1..NumBots -> BOT_ROLLS], dice \in DICE :
           PlayerJoin(s, data, roll, rolls, dice, FALSE)
    \/ \E s \in GUNNERS \cap Present, type \in PROJECTILE_TYPES, direction \in DIRECTIONS :
           projectileIdCounter < DrillShots /\ Shoot(s, type, direction)
    \/ \E dtMs \in DRILL_STEPS, dice \in DICE :
           now + dtMs <= DrillSeconds * 1000 /\ GameLoop(dtMs, dice, FALSE)

SpecDrill == Init /\ [][NextDrill]_vars

(* SpecGhost: a gunner and a pilot in the free-for-all mode; the pilot also asks for
   shots, alive or dead *)
NextGhost ==
    \/ \E s \in GUNNERS \cup PILOTS, roll \in RANDOM_ROLLS : Join(s, NoTeam, roll, FALSE)
    \/ \E s \in PILOTS \cap Present, input \in GHOST_INPUTS :
           /\ players[s].rotation.x + input.pitch * RotSpeed <= GhostTurns * 10 * RotSpeed
           /\ Input(s, input)
    \/ \E s \in (GUNNERS \cup PILOTS) \cap Present, type \in PROJECTILE_TYPES,
          direction \in DIRECTIONS :
           projectileIdCounter < GhostShots /\ Shoot(s, type, direction)
    \/ \E s \in PILOTS \cap Present, roll \in RANDOM_ROLLS : Respawn(s, roll)
    \/ \E dtMs \in TickSteps : now + dtMs <= GhostSeconds * 1000 /\ Tick(dtMs, FALSE)

SpecGhost == Init /\ [][NextGhost]_vars

(* SpecExpiry: a gunner whose lasers fly or stand still, and a pilot in their way or
   not; a shot is fired only while the clock can still run past its time-to-live, and
   the game loop keeps running: a tick is possible exactly while the clock is below
   its bound, so weak fairness of the tick is the clock reaching that bound *)
ExpiryTick == \E dtMs \in TickSteps : now + dtMs <= ExpirySeconds * 1000 /\ Tick(dtMs, FALSE)

NextExpiry ==
    \/ \E s \in GUNNERS \cup PILOTS, roll \in EXPIRY_ROLLS : Join(s, NoTeam, roll, FALSE)
    \/ \E s \in GUNNERS \cap Present, type \in EXPIRY_TYPES, direction \in EXPIRY_DIRECTIONS :
           /\ projectileIdCounter < ExpiryShots
           /\ now + ProjectileLifetime + 1000 <= ExpirySeconds * 1000
           /\ Shoot(s, type, direction)
    \/ ExpiryTick

SpecExpiry == Init /\ [][NextExpiry]_vars /\ []<>(now = ExpirySeconds * 1000)

(* SpecPhases: a gunner in practice mode that shoots at the bots, flies into their
   shooting range and climbs out of their line of fire *)
NextPhases ==
    \/ \E s \in GUNNERS, data \in PRACTICE_DATA, roll \in PRACTICE_ROLLS,
          rolls \in PHASE_BOT_ROLLS, dice \in DICE :
           PlayerJoin(s, data, roll, rolls, dice, FALSE)
    \/ \E s \in GUNNERS \cap Present, input \in PHASE_INPUTS : Input(s, input)
    \/ \E s \in GUNNERS \cap Present, type \in PROJECTILE_TYPES, direction \in DIRECTIONS :
           projectileIdCounter < PhaseShots /\ Shoot(s, type, direction)
    \/ \E dtMs \in TickSteps, dice \in DICE :
           now + dtMs <= PhaseSeconds * 1000 /\ GameLoop(dtMs, dice, FALSE)

SpecPhases == Init /\ [][NextPhases]_vars

(* SpecPointBlank: a gunner in practice mode that may spawn where the bots are *)
NextPointBlank ==
    \/ \E s \in GUNNERS, data \in POINT_DATA, roll \in POINT_ROLLS,
          rolls \in [1..NumBots -> BOT_ROLLS], dice \in DICE :
           PlayerJoin(s, data, roll, rolls, dice, FALSE)
    \/ \E s \in GUNNERS \cap Present, type \in PROJECTILE_TYPES, direction \in DIRECTIONS :
           projectileIdCounter < PointShots /\ Shoot(s, type, direction)
    \/ \E s \in GUNNERS \cap Present, roll \in POINT_ROLLS : Respawn(s, roll)
    \/ \E dtMs \in TickSteps, dice \in DICE :
           /\ now + dtMs <= PointSeconds * 1000
           /\ projectileIdCounter < PointShots
           /\ GameLoop(dtMs, dice, FALSE)

SpecPointBlank == Init /\ [][NextPointBlank]_vars

(* SpecEnrol: two sockets that join with or without a practice request and leave, in
   both game modes *)
NextEnrol ==
    \/ \E s \in GUNNERS \cup PILOTS, data \in ENROL_DATA, roll \in PRACTICE_ROLLS,
          rolls \in [1..NumBots -> BOT_ROLLS], dice \in DICE :
           PlayerJoin(s, data, roll, rolls, dice, FALSE)
    \/ \E s \in (GUNNERS \cup PILOTS) \cap Present : Disconnect(s)
    \/ \E mode \in MODES : SetMode(mode)
    \/ \E dtMs \in TickSteps, dice \in DICE :
           now + dtMs <= EnrolSeconds * 1000 /\ GameLoop(dtMs, dice, FALSE)

SpecEnrol == Init /\ [][NextEnrol]_vars

(* SpecCareer: a gunner and a pilot in both game modes; a socket joins only while it
   has no player in the store, so that a player of the store is the one that joined *)
NextCareer ==
    \/ \E j \in JOINS, roll \in RANDOM_ROLLS : j[1] \notin Present /\ Join(j[1], j[2], roll, FALSE)
    \/ \E s \in GUNNERS \cap Present, type \in PROJECTILE_TYPES, direction \in DIRECTIONS :
           projectileIdCounter < CareerShots /\ Shoot(s, type, direction)
    \/ \E s \in PILOTS \cap Present, roll \in RANDOM_ROLLS : Respawn(s, roll)
    \/ \E s \in (GUNNERS \cup PILOTS) \cap Present : Disconnect(s)
    \/ \E mode \in MODES : SetMode(mode)
    \/ \E dtMs \in TickSteps : now + dtMs <= CareerSeconds * 1000 /\ Tick(dtMs, FALSE)

SpecCareer == Init /\ [][NextCareer]_vars

----------------------------------------------------------------------------
(* Properties *)

\* a step of the game loop: the only action that moves the clock
TickStep == now' # now

\* the entries of an event list that satisfy a test
Entries(events, Test(_)) == {i \in 1..Len(events) : Test(events[i])}

Range(seq) == {seq[i] : i \in 1..Len(seq)}

\* C1: in every reachable state every player of the store has 0 <= health <= maxHealth
C1_HealthWithinBounds ==
    \A id \in DOMAIN players :
        0 <= players[id].health /\ players[id].health <= players[id].maxHealth

\* a player hit in a tick picks the health power-up in the same tick, and the boost
\* would have taken it above maxHealth
C1_HurtThenHealed ==
    \E i \in 1..Len(hitLog), j \in 1..Len(powerUpsCollected) :
        /\ powerUpsCollected[j].playerId = hitLog[i].targetId
        /\ powerUpsCollected[j].type = "health"
        /\ hitLog[i].healthAfter < PLAYER_MAX_HEALTH
        /\ hitLog[i].healthAfter + HealthBoost > PLAYER_MAX_HEALTH
        /\ players[hitLog[i].targetId].health = PLAYER_MAX_HEALTH

\* C2: in every reachable state a player that is not alive has health 0 (so nothing
\* raises the health of a dead player before it is respawned)
C2_DeadHaveNoHealth ==
    \A id \in DOMAIN players : ~players[id].isAlive => players[id].health = 0

\* a player killed in the tick lies within reach of a health power-up that the tick
\* left active
C2_DeadByActiveHealthPowerUp ==
    \E i \in 1..Len(hitLog), k \in 1..Len(POWERUP_POSITIONS) :
        /\ hitLog[i].killed
        /\ hitLog[i].healthBefore - hitLog[i].damage < 0
        /\ ~players[hitLog[i].targetId].isAlive
        /\ powerUps[k].isActive
        /\ PowerUpType(k) = "health"
        /\ Distance(players[hitLog[i].targetId].position, POWERUP_POSITIONS[k]) < PickupRadius

\* C3: no hit event of a tick has the projectile's owner as its target, and in team
\* mode no hit event has a target of the owner's team
C3_NoSelfOrTeamHit ==
    \A i \in 1..Len(hits) :
        /\ hits[i].targetId # hits[i].attackerId
        /\ hits[i].attackerId \in DOMAIN players
        /\ gameMode = "team" =>
               players[hits[i].targetId].team # players[hits[i].attackerId].team

\* a hit in team mode, between a blue attacker and a red target
C3_HitAcrossTeams ==
    /\ gameMode = "team"
    /\ \E i \in 1..Len(hits) :
           /\ players[hits[i].attackerId].team = "blue"
           /\ players[hits[i].targetId].team = "red"

\* C4: when other eligible living players are within the hit radius of the swept
\* segment, the player hit has a smaller clamped projection than each of them, and the
\* same player is hit when the store is iterated in the opposite order
C4_ClosestWinsInAnyOrder ==
    \A i \in 1..Len(hitLog) :
        /\ hitLog[i].rival.id # NoPlayer => hitLog[i].dist < hitLog[i].rival.dist
        /\ hitLog[i].reverseTarget = hitLog[i].targetId

\* C5: one hit leaves shield = max(0, shield - damage) and
\* health = max(0, health - (damage - min(shield, damage)))
C5_ShieldAbsorbsFirst ==
    \A i \in 1..Len(hitLog) :
        LET e == hitLog[i]
        IN  /\ e.shieldBefore >= 0 /\ e.healthBefore > 0 /\ e.damage >= 0
            /\ e.shieldAfter = Max(0, e.shieldBefore - e.damage)
            /\ e.healthAfter =
                   Max(0, e.healthBefore - (e.damage - Min(e.shieldBefore, e.damage)))

\* a hit on a shield smaller than the damage: the shield is used up and the rest of
\* the damage reaches the health
C5_ShieldPartlyAbsorbs ==
    \E i \in 1..Len(hitLog) :
        /\ hitLog[i].shieldBefore > 0
        /\ hitLog[i].shieldBefore < hitLog[i].damage
        /\ hitLog[i].shieldAfter = 0
        /\ hitLog[i].healthAfter < hitLog[i].healthBefore

\* the hits of a tick that killed and that Test selects
Killings(log, Test(_)) == Cardinality({i \in 1..Len(log) : log[i].killed /\ Test(log[i])})

\* C6: in a tick every player's deaths grow by one per killing hit it took, its kills by
\* one and its score by 100 per killing hit of its projectiles, and by nothing else
C6_KillBookkeeping ==
    [][TickStep =>
          \A id \in DOMAIN players :
              /\ id \in DOMAIN players'
              /\ players'[id].deaths = players[id].deaths
                     + Killings(hitLog', LAMBDA e : e.targetId = id)
              /\ players'[id].kills = players[id].kills
                     + Killings(hitLog', LAMBDA e : e.attackerId = id)
              /\ players'[id].score = players[id].score
                     + KillScore * Killings(hitLog', LAMBDA e : e.attackerId = id)]_vars

\* a killing hit: the victim has a death, the attacker a kill and 100 points
C6_KillCounted ==
    \E i \in 1..Len(hitLog) :
        /\ hitLog[i].killed
        /\ players[hitLog[i].targetId].deaths = 1
        /\ players[hitLog[i].attackerId].kills = 1
        /\ players[hitLog[i].attackerId].score = KillScore

\* C7: in a tick in team mode each team's score grows by one per kill by an attacker of
\* that team (a kill by an attacker without a team changes neither score); in a tick
\* in ffa mode no team score changes
C7_TeamScorePerKill ==
    [][TickStep =>
          \A team \in DOMAIN teamScores :
              teamScores'[team] = teamScores[team] +
                  (IF gameMode = "team"
                   THEN Killings(hitLog', LAMBDA e : players[e.attackerId].team = team)
                   ELSE 0)]_vars

\* a kill by a blue attacker in team mode, counted for blue and not for red
C7_BlueKillCounted ==
    /\ gameMode = "team"
    /\ teamScores.blue = 1
    /\ teamScores.red = 0
    /\ \E i \in 1..Len(hitLog) :
           hitLog[i].killed /\ players[hitLog[i].attackerId].team = "blue"

\* the ids of the projectiles in the store
ProjectileIds(projs) == {projs[k].id : k \in 1..Len(projs)}

\* C8: a projectile hits at most once and leaves the store in the tick of its hit (ids
\* are never used again); a player that dies in a tick has exactly one kill event, and
\* a player that was dead before the tick, or was killed earlier in it, has no hit or
\* kill event
C8_OneHitOneKill ==
    [][/\ ProjectileIds(projectiles) \subseteq 0..(projectileIdCounter - 1)
       /\ ProjectileIds(projectiles') \ ProjectileIds(projectiles)
              \subseteq projectileIdCounter..(projectileIdCounter' - 1)
       /\ TickStep =>
           /\ \A i, j \in 1..Len(hitLog') :
                  hitLog'[i].projId = hitLog'[j].projId => i = j
           /\ \A i \in 1..Len(hitLog') :
                  /\ hitLog'[i].projId \in ProjectileIds(projectiles)
                  /\ hitLog'[i].projId \notin ProjectileIds(projectiles')
           /\ Len(hits') = Len(hitLog')
           /\ \A i \in 1..Len(hits') :
                  /\ hits'[i].targetId = hitLog'[i].targetId
                  /\ players[hits'[i].targetId].isAlive
                  /\ \A j \in 1..Len(hits') :
                         (j < i /\ hitLog'[j].killed) =>
                             hits'[j].targetId # hits'[i].targetId
           /\ \A id \in DOMAIN players :
                  Cardinality(Entries(kills', LAMBDA k : k.victimId = id)) =
                      (IF players[id].isAlive /\ ~players'[id].isAlive THEN 1 ELSE 0)
      ]_vars

\* a projectile created before the tick is still in the store after a tick in which
\* three others killed the player on its path
C8_ShotPastTheDead ==
    /\ Len(kills) = 1
    /\ Len(hits) = 3
    /\ \E k \in 1..Len(projectiles) :
           /\ projectiles[k].createdAt < now
           /\ projectiles[k].ownerId = kills[1].killerId
           /\ ~players[kills[1].victimId].isAlive

\* one axis of a position after a tick
ClampedAxis(p, v, dtMs, bounds) ==
    IF p + (v * dtMs) \div 1000 > bounds THEN bounds
    ELSE IF p + (v * dtMs) \div 1000 < -bounds THEN -bounds
    ELSE p + (v * dtMs) \div 1000

\* C9: after a tick each axis of a living player's position is within the world bounds,
\* is exactly the bound it went across, and otherwise is the integrated value
C9_WorldBoundsClamp ==
    [][TickStep =>
          \A id \in DOMAIN players :
              players[id].isAlive =>
                  LET p == players[id].position
                      v == players[id].velocity
                      q == players'[id].position
                      b == WORLD_SIZE \div 2
                  IN  /\ q.x = ClampedAxis(p.x, v.x, now' - now, b)
                      /\ q.y = ClampedAxis(p.y, v.y, now' - now, b)
                      /\ q.z = ClampedAxis(p.z, v.z, now' - now, b)
                      /\ -b <= q.x /\ q.x <= b
                      /\ -b <= q.y /\ q.y <= b
                      /\ -b <= q.z /\ q.z <= b]_vars

\* a player that flew across the upper bound on x and the lower bound on z
C9_StoppedAtBothBounds ==
    \E id \in DOMAIN players :
        /\ players[id].velocity.x > WORLD_SIZE \div 2
        /\ players[id].position.x = WORLD_SIZE \div 2
        /\ players[id].velocity.z < -(WORLD_SIZE \div 2)
        /\ players[id].position.z = -(WORLD_SIZE \div 2)
        /\ players[id].position.y = 0

\* the positions of the spawn pools
SpawnPoints == Range(SPAWN_POSITIONS) \cup Range(TEAM_SPAWNS.red) \cup Range(TEAM_SPAWNS.blue)

\* C10: after respawnPlayer of a player of the store the player has full health, no
\* shield, is alive, does not move and is at a spawn position, with its score, kills,
\* deaths and team as before
C10_RespawnResets ==
    [][\A s \in DOMAIN players :
          (\E roll \in RANDOM_ROLLS : Respawn(s, roll)) =>
              /\ players'[s].health = players'[s].maxHealth
              /\ players'[s].shield = 0
              /\ players'[s].isAlive
              /\ players'[s].velocity = Zero3
              /\ players'[s].position \in SpawnPoints
              /\ players'[s].score = players[s].score
              /\ players'[s].kills = players[s].kills
              /\ players'[s].deaths = players[s].deaths
              /\ players'[s].team = players[s].team]_vars

\* a player that died is alive again, with full health, at rest at a spawn position
C10_BackFromTheDead ==
    \E id \in DOMAIN players :
        /\ players[id].deaths > 0
        /\ players[id].isAlive
        /\ players[id].health = players[id].maxHealth
        /\ players[id].velocity = Zero3
        /\ players[id].position \in SpawnPoints

\* C11: a respawn request for a player that is alive leaves the player's health, shield,
\* position and velocity as they were
C11_RespawnOnlyRevives ==
    [][\A s \in DOMAIN players :
          (players[s].isAlive /\ \E roll \in RANDOM_ROLLS : Respawn(s, roll)) =>
              /\ players'[s].health = players[s].health
              /\ players'[s].shield = players[s].shield
              /\ players'[s].position = players[s].position
              /\ players'[s].velocity = players[s].velocity]_vars

\* C13: a tick has at most one pickup event for a power-up
C13_OneCollectorPerPowerUp ==
    \A i, j \in 1..Len(powerUpsCollected) :
        powerUpsCollected[i].powerUpId = powerUpsCollected[j].powerUpId => i = j

\* C14: every projectile of the store is owned by a player of the store, and so is
\* the attacker of every hit and kill event of a tick
C14_OwnersPresent ==
    /\ \A k \in 1..Len(projectiles) : projectiles[k].ownerId \in DOMAIN players
    /\ \A i \in 1..Len(hits) : hits[i].attackerId \in DOMAIN players
    /\ \A i \in 1..Len(kills) : kills[i].killerId \in DOMAIN players

\* the gunner has left before any tick: the projectiles it had fired are gone with it
C14_GunnerGoneWithItsShots ==
    /\ \A s \in GUNNERS : s \notin DOMAIN players
    /\ projectileIdCounter > 0
    /\ now = 0
    /\ projectiles = <<>>
    /\ DOMAIN players # {}

\* C17: a player has a team if and only if the game mode is 'team'
C17_TeamIffTeamMode ==
    \A id \in DOMAIN players : (players[id].team # NoTeam) <=> (gameMode = "team")

\* the requests of a sender: input, shoot, respawn, remove
Request(s) ==
    \/ \E input \in INPUTS : Input(s, input)
    \/ \E type \in PROJECTILE_TYPES, direction \in DIRECTIONS : Shoot(s, type, direction)
    \/ \E roll \in RANDOM_ROLLS : Respawn(s, roll)
    \/ Disconnect(s)

\* C15: an input, shoot, respawn or remove request naming an id with no player in the
\* store leaves the players, the projectiles, the power-ups, the team scores and the
\* game mode as they were, and is answered with no error
C15_AbsentIdChangesNothing ==
    [][\A s \in GUNNERS \cup PILOTS :
          (s \notin DOMAIN players /\ Request(s))
              => /\ UNCHANGED <<players, order, projectiles, powerUps, teamScores,
                               gameMode, projectileIdCounter>>
                 /\ outcome' = "ignored"]_vars

\* a request of an absent sender was ignored while a player and its projectile are in the store
C15_StrayRequestIgnored ==
    /\ outcome = "ignored"
    /\ DOMAIN players # {}
    /\ projectiles # <<>>
    /\ gameMode = "team"

\* C16: a mode request whose value is neither 'ffa' nor 'team' is answered with an error
\* and changes neither the game mode, nor the team scores, nor anything else of the game
C16_InvalidModeRejected ==
    [][\A mode \in MODE_REQUESTS \ MODES :
          SetMode(mode)
              => /\ outcome' = "rejected"
                 /\ UNCHANGED <<players, order, projectiles, powerUps, gameMode,
                               teamScores, projectileIdCounter, now>>]_vars

\* a mode request was rejected in the team mode, with a player and a projectile in the store
C16_RejectedInTeamMode ==
    /\ outcome = "rejected"
    /\ gameMode = "team"
    /\ DOMAIN players # {}
    /\ projectiles # <<>>

\* the power-ups with a pickup event in the tick that led to the next state
CollectedNext == { powerUpsCollected'[e].powerUpId : e \in 1..Len(powerUpsCollected') }

\* C12: a pickup at tick time now turns an active power-up inactive with respawnTime =
\* now + POWERUP_RESPAWN_TIME; an inactive power-up keeps its respawnTime, stays inactive
\* through every handler and every tick whose time is below respawnTime, and is active
\* after the first tick whose time is >= respawnTime
C12_PowerUpCycle ==
    [][\A i \in 1..Len(powerUps) :
          IF ~TickStep THEN powerUps'[i] = powerUps[i]
          ELSE IF powerUps[i].isActive
          THEN IF i \in CollectedNext
               THEN powerUps'[i] = [ isActive |-> FALSE,
                                     respawnTime |-> now' + POWERUP_RESPAWN_TIME ]
               ELSE powerUps'[i] = powerUps[i]
          ELSE /\ i \notin CollectedNext
               /\ powerUps'[i].respawnTime = powerUps[i].respawnTime
               /\ powerUps'[i].isActive <=> (now' >= powerUps[i].respawnTime)]_vars

\* a collected power-up is active again at the tick whose time is its respawnTime
C12_BackOnTime ==
    \E i \in 1..Len(powerUps) :
        /\ powerUps[i].isActive
        /\ powerUps[i].respawnTime = now
        /\ now > 0

\* C18: what a snapshot returned by serialize() holds is what it held when it was made,
\* whatever tick, input, shoot, respawn or disconnect came after it
C18_SnapshotImmutable ==
    snapshot.held => snapshot.seen = snapshot.taken

\* the ids of the bots
BotIds == DOMAIN bots

\* C20: bots never fight each other: the nearestPlayer a bot found is no bot, and no hit
\* or kill event has a bot as attacker and a bot as target
C20_BotsSpareBots ==
    /\ \A b \in BotIds : bots[b].nearest \notin BotIds
    /\ \A i \in 1..Len(hits) : ~(hits[i].attackerId \in BotIds /\ hits[i].targetId \in BotIds)
    /\ \A i \in 1..Len(kills) : ~(kills[i].killerId \in BotIds /\ kills[i].victimId \in BotIds)

\* a hit on player b in the tick that led to the next state
HitNext(b) == \E i \in 1..Len(hitLog') : hitLog'[i].targetId = b

\* C19: a living bot has no respawn deadline; no handler but the game loop kills or
\* revives a bot or touches its deadline; the first tick that finds the bot dead sets the
\* deadline to its time + 3000 ms and leaves the bot dead; the later ticks leave it dead
\* and keep the deadline while their time is below it; the first tick whose time is >=
\* the deadline clears the deadline and respawns the bot with full health (less what
\* hits it in that same tick)
C19_BotRespawnDelay ==
    [][\A b \in DOMAIN bots :
          /\ players[b].isAlive => bots[b].respawnTime = 0
          /\ IF ~TickStep
             THEN /\ bots'[b].respawnTime = bots[b].respawnTime
                  /\ players'[b].isAlive = players[b].isAlive
             ELSE IF players[b].isAlive
             THEN bots'[b].respawnTime = 0
             ELSE IF bots[b].respawnTime = 0
             THEN /\ ~players'[b].isAlive
                  /\ bots'[b].respawnTime = now' + 3000
             ELSE IF now' >= bots[b].respawnTime
             THEN /\ bots'[b].respawnTime = 0
                  /\ \/ HitNext(b)
                     \/ players'[b].isAlive /\ players'[b].health = PLAYER_MAX_HEALTH
             ELSE /\ ~players'[b].isAlive
                  /\ bots'[b].respawnTime = bots[b].respawnTime]_vars

\* a bot that died twice is back with full health and no deadline
C19_BotBackAgain ==
    \E b \in DOMAIN bots :
        /\ players[b].deaths > 1
        /\ players[b].isAlive
        /\ players[b].health = PLAYER_MAX_HEALTH
        /\ bots[b].respawnTime = 0

\* the player s with the velocity and the rotation it has in the next state
Steered(s) ==
    [players EXCEPT ![s].velocity = players'[s].velocity,
                    ![s].rotation = players'[s].rotation]

\* C21: an input or a shoot request of a dead player of the store changes no player and
\* creates no projectile; an input of a living player changes its velocity and rotation
\* only, not its position, and no other player or projectile
C21_DeadDoNothing ==
    [][\A s \in DOMAIN players :
          /\ (~players[s].isAlive
                 /\ \/ \E input \in GHOST_INPUTS : Input(s, input)
                    \/ \E type \in PROJECTILE_TYPES, direction \in DIRECTIONS :
                           Shoot(s, type, direction))
                => UNCHANGED <<players, projectiles, projectileIdCounter>>
          /\ (players[s].isAlive /\ \E input \in GHOST_INPUTS : Input(s, input))
                => /\ players' = Steered(s)
                   /\ players'[s].position = players[s].position
                   /\ UNCHANGED <<projectiles, projectileIdCounter>>]_vars

\* a dead player that was flying and had turned has sent an input or asked for a shot
C21_DeadHasAsked ==
    /\ outcome = "dead"
    /\ \E s \in DOMAIN players :
           /\ ~players[s].isAlive
           /\ players[s].velocity # Zero3
           /\ players[s].rotation # NoRotation

\* the players with a pickup event in the last tick
Collectors == { powerUpsCollected[e].playerId : e \in 1..Len(powerUpsCollected) }

\* C22: the newHealth of every hit event is the target's health after the hit, clamped:
\* it is >= 0, and it is the health the target has after the tick unless a later hit or
\* a pickup of the same tick changed it
C22_NewHealthIsHealth ==
    \A i \in 1..Len(hits) :
        /\ hits[i].newHealth >= 0
        /\ (/\ hits[i].targetId \in DOMAIN players
            /\ hits[i].targetId \notin Collectors
            /\ \A j \in (i + 1)..Len(hits) : hits[j].targetId # hits[i].targetId)
               => hits[i].newHealth = players[hits[i].targetId].health

\* whether the projectile with this id is in the store
InStore(id) == \E k \in 1..Len(projectiles) : projectiles[k].id = id

\* C23: no projectile of the store is older than the 5000 ms lifetime or outside the
\* world bounds, and with a game loop that keeps running every projectile of the store,
\* flying or standing still, is removed at some time
C23_ProjectilesExpire ==
    /\ [](\A k \in 1..Len(projectiles) :
             /\ now - projectiles[k].createdAt <= 5000
             /\ ~OutOfWorld(projectiles[k].position, WORLD_SIZE \div 2))
    /\ \A id \in 0..ExpiryShots : InStore(id) ~> ~InStore(id)

\* a laser that stands still where nobody is has gone six seconds after it was fired
C23_StandingShotGone ==
    /\ projectileIdCounter > 0
    /\ projectiles = <<>>
    /\ DOMAIN players = GUNNERS
    /\ \A s \in DOMAIN players : players[s].kills = 0
    /\ now = 6000

\* the victims of the last tick
Victims == { kills[e].victimId : e \in 1..Len(kills) }

\* the segment a projectile of the store has just flown, dtMs being the tick's length
Flown(proj, dtMs) ==
    Segment([proj EXCEPT !.position = Sub3(proj.position, Scale(proj.velocity, dtMs))], dtMs)

\* C24: a tick runs bot control, movement, combat and power-ups in this order: a bot
\* that was alive has moved by the velocity it has after the tick, a projectile that
\* was in the store hit a player that is within the hit radius of its segment where the
\* player is after the movement, a projectile that flew on has no living player other
\* than its owner within the hit radius where the players are after the movement, and
\* no victim of the tick's kills has collected a power-up in it
C24_PhaseOrder ==
    [][TickStep =>
        /\ \A b \in BotIds \cap DOMAIN players :
               players[b].isAlive =>
                   players'[b].position =
                       MovePlayer([players[b] EXCEPT !.velocity = players'[b].velocity],
                                  now' - now).position
        /\ \A e \in 1..Len(hitLog'), k \in 1..Len(projectiles) :
               projectiles[k].id = hitLog'[e].projId =>
                   SegmentTest(Segment(projectiles[k], now' - now),
                               players'[hitLog'[e].targetId]).within
        /\ \A k \in 1..Len(projectiles'), q \in DOMAIN players' :
               (players'[q].isAlive /\ q # projectiles'[k].ownerId) =>
                   ~SegmentTest(Flown(projectiles'[k], now' - now), players'[q]).within
        /\ \A e \in 1..Len(kills'), c \in 1..Len(powerUpsCollected') :
               kills'[e].victimId # powerUpsCollected'[c].playerId]_vars

\* the first bot chose a velocity and flew by it in the same tick, and the laser it fired
\* at the gunner's place missed the gunner, who had climbed away
C24_BotFlewAndMissed ==
    /\ now = 2000
    /\ "bot_0" \in DOMAIN players /\ "s1" \in DOMAIN players
    /\ players["bot_0"].velocity = Vec(20, 0, 0)
    /\ players["bot_0"].position = Vec(40, 0, 0)
    /\ players["s1"].position = Vec(100, 100, 0)
    /\ players["s1"].health = 100
    /\ hits = <<>>
    /\ \E k \in 1..Len(projectiles) :
           /\ projectiles[k].ownerId = "bot_0"
           /\ projectiles[k].createdAt = now
           /\ projectiles[k].position = Vec(220, 0, 0)

\* the first living bot in creation order, NoPlayer when no bot lives
FirstLivingBot ==
    IF \E i \in 1..Len(BOT_IDS) : BOT_IDS[i] \in BotIds /\ players[BOT_IDS[i]].isAlive
    THEN BOT_IDS[CHOOSE i \in 1..Len(BOT_IDS) :
                     /\ BOT_IDS[i] \in BotIds /\ players[BOT_IDS[i]].isAlive
                     /\ \A j \in 1..(i - 1) :
                            ~(BOT_IDS[j] \in BotIds /\ players[BOT_IDS[j]].isAlive)]
    ELSE NoPlayer

\* C25: in a tick of practice mode at most one projectile is created, and its owner is
\* the first living bot in creation order; every other living bot keeps its bot state
\* and its rotation, and its velocity is the old one times 0.9
C25_OneAttacker ==
    [][(TickStep /\ isPracticeMode) =>
        /\ projectileIdCounter' - projectileIdCounter <= 1
        /\ \A k \in 1..Len(projectiles') :
               projectiles'[k].id >= projectileIdCounter
                   => projectiles'[k].ownerId = FirstLivingBot
        /\ \A e \in 1..Len(hitLog') :
               hitLog'[e].projId >= projectileIdCounter
                   => hitLog'[e].attackerId = FirstLivingBot
        /\ \A b \in BotIds :
               (players[b].isAlive /\ b # FirstLivingBot) =>
                   /\ players'[b].velocity = Waiting(players[b].velocity)
                   /\ players'[b].rotation = players[b].rotation
                   /\ bots'[b] = bots[b]]_vars

\* the first bot is back and chases, and the second bot, which chased while the first
\* was dead, has let its velocity decay
C25_SecondBotWaits ==
    /\ BotIds # {}
    /\ ~botsArePassive
    /\ players["bot_0"].isAlive /\ players["bot_0"].velocity = Vec(20, 0, 0)
    /\ players["bot_1"].isAlive /\ players["bot_1"].velocity = Vec(18, 0, 0)

\* a step of a handler that puts the player at a spawn point: a join, or a respawn that
\* moves or revives
Placed(s) ==
    /\ now' = now
    /\ s \in DOMAIN players'
    /\ \/ s \notin DOMAIN players
       \/ players'[s].position # players[s].position
       \/ ~players[s].isAlive /\ players'[s].isAlive

SameDirection(v, d) ==
    /\ v.x * d.y = v.y * d.x /\ v.y * d.z = v.z * d.y /\ v.x * d.z = v.z * d.x
    /\ Dot3(v, d) > 0

\* C27: a projectile that a bot has fired in a tick and that flies on has a velocity of
\* numbers, whose magnitude is LASER_SPEED and which points from where the bot was to
\* where its target was
C27_BotShotsAimed ==
    [][TickStep =>
        \A k \in 1..Len(projectiles') :
            (projectiles'[k].id >= projectileIdCounter) =>
                /\ ~IsNaN3(projectiles'[k].velocity)
                /\ Length(projectiles'[k].velocity) = LASER_SPEED
                /\ SameDirection(projectiles'[k].velocity,
                                 Sub3(players[bots'[projectiles'[k].ownerId].nearest].position,
                                      players[projectiles'[k].ownerId].position))]_vars

\* C28: there are no bots before practice mode is enabled and exactly three afterwards,
\* all of them in the store; once enabled, practice mode stays enabled with the same
\* bots and the same passive flag whatever is done; the bots appear in a step that
\* leaves a player that is no bot in the store, at the same time and in the same mode
C28_BotsEnabledOnce ==
    [][/\ Cardinality(BotIds') = (IF isPracticeMode' THEN 3 ELSE 0)
       /\ BotIds' \subseteq DOMAIN players'
       /\ isPracticeMode =>
              /\ isPracticeMode'
              /\ BotIds' = BotIds
              /\ botsArePassive' = botsArePassive
       /\ BotIds' # BotIds =>
              /\ BotIds = {}
              /\ now' = now /\ gameMode' = gameMode
              /\ DOMAIN players' \ BotIds' # {}]_vars

\* the three passive bots are alone in the store, in team mode, after both sockets
\* joined and left
C28_BotsOutliveTheirPlayers ==
    /\ isPracticeMode /\ botsArePassive
    /\ Cardinality(BotIds) = 3
    /\ DOMAIN players = BotIds
    /\ gameMode = "team"
    /\ now > 0

\* C29: with passive bots no projectile of the store is owned by a bot; after a tick
\* every living bot has the velocity zero; a bot changes its position only when it comes
\* back to life; and a dead bot whose respawn time has come is alive after the tick, or
\* has died once more in it
C29_PassiveBotsStandStill ==
    [][botsArePassive =>
        /\ \A k \in 1..Len(projectiles') : projectiles'[k].ownerId \notin BotIds'
        /\ \A b \in BotIds :
               /\ (TickStep /\ players'[b].isAlive) => players'[b].velocity = Zero3
               /\ players'[b].position # players[b].position
                      => ~players[b].isAlive /\ players'[b].isAlive
               /\ (/\ TickStep
                   /\ ~players[b].isAlive
                   /\ bots[b].respawnTime # 0
                   /\ now' >= bots[b].respawnTime)
                      => players'[b].isAlive \/ players'[b].deaths > players[b].deaths]_vars

\* a passive bot that was killed once is back, standing still, and the gunner's
\* projectiles are the only ones
C29_PassiveBotBack ==
    /\ botsArePassive
    /\ projectiles # <<>>
    /\ \A k \in 1..Len(projectiles) : projectiles[k].ownerId \notin BotIds
    /\ \E b \in BotIds :
           /\ players[b].deaths = 1
           /\ players[b].isAlive
           /\ players[b].velocity = Zero3

====
